---- MODULE Spec2Model ----
(***************************************************************************)
(* NewsAPI Dashboard: the React client (App.js, SearchBar, Filters,        *)
(* NewsList) and the Express proxy (buildNewsAPIParams, handleAPIError,    *)
(* the /api/news and /api/sources routes) as one state machine.            *)
(*                                                                         *)
(* Strings that the code inspects character by character (the search      *)
(* query, ISO dates) are sequences of one-character strings; strings the   *)
(* code only passes around or compares whole are TLA+ strings.             *)
(* Time is kept in seconds since the epoch (Date.getTime() / 1000): the    *)
(* clock of the model has a granularity of one second.                     *)
(***************************************************************************)
EXTENDS Integers, Sequences, FiniteSets, TLC

VARIABLES
    pc,           \* "init" before the mount effects have run, then "mounted"
    strict,       \* a development build: React.StrictMode runs mount effects twice
    darkMode,     \* useState(() => saved preference, or false)
    storage,      \* localStorage.getItem('darkMode'): null, or the JSON text stored
    searchQuery,  \* useState('technology')
    filters,      \* useState({language, dateRange, source})
    articles,     \* useState([])
    loading,      \* useState(false)
    error,        \* useState(null)
    sources,      \* useState([])
    requests,     \* the /api/news calls issued so far, in trigger order
    srcRequests,  \* the /api/sources calls issued so far
    probe         \* input and result of the last direct call of a pure helper

vars == <<pc, strict, darkMode, storage, searchQuery, filters, articles, loading, error, sources,
          requests, srcRequests, probe>>

clientVars == <<pc, strict, darkMode, storage, searchQuery, filters, articles, loading, error,
                sources, requests, srcRequests>>

-----------------------------------------------------------------------------
(* Bounds of the model *)

\* most /api/news calls issued in one session
MaxFetches == 2
\* most articles in one upstream answer
MaxArticles == 1
\* number of consecutive days, after FirstDay, the clock is drawn from
MaxDays == 3

-----------------------------------------------------------------------------
(* JavaScript values *)

\* JavaScript's null / undefined, for a value that is otherwise a string
Null == "<null>"
Undefined == "<undefined>"

\* x || y on strings: the empty string, null and undefined are falsy
OrElse(x, y) == IF x = "" \/ x = Null \/ x = Undefined THEN y ELSE x

Truthy(x) == ~(x = "" \/ x = Null \/ x = Undefined)

\* characters String.prototype.trim removes
WhiteSpace == {" ", "\t"}

RECURSIVE TrimStart(_)
TrimStart(s) ==
    IF s = <<>> THEN <<>>
    ELSE IF Head(s) \in WhiteSpace THEN TrimStart(Tail(s)) ELSE s

RECURSIVE TrimEnd(_)
TrimEnd(s) ==
    IF s = <<>> THEN <<>>
    ELSE IF s[Len(s)] \in WhiteSpace THEN TrimEnd(SubSeq(s, 1, Len(s) - 1)) ELSE s

\* searchQuery.trim()
Trim(s) == TrimEnd(TrimStart(s))

-----------------------------------------------------------------------------
(* Dates: new Date(), Date.prototype.toISOString, getDateFrom *)

\* first days (days since 1970-01-01) of the two windows the clock is drawn
\* from: 2023-12-31 (year boundary) and 2024-02-28 (leap day)
YearEndDay == 19722
LeapDay == 19781

SecondsPerDay == 24 * 60 * 60

Digits == <<"0", "1", "2", "3", "4", "5", "6", "7", "8", "9">>

Digit(n) == Digits[n + 1]

Pad2(n) == <<Digit((n \div 10) % 10), Digit(n % 10)>>

Pad4(n) == <<Digit((n \div 1000) % 10), Digit((n \div 100) % 10)>> \o Pad2(n % 100)

\* the proleptic Gregorian date [y, m, d] of a day number, as the Date object
\* derives its UTC fields from its time value
CivilFromDays(days) ==
    LET z    == days + 719468
        era  == z \div 146097
        doe  == z - era * 146097
        yoe  == (doe - (doe \div 1460) + (doe \div 36524) - (doe \div 146096)) \div 365
        doy  == doe - (365 * yoe + (yoe \div 4) - (yoe \div 100))
        mp   == (5 * doy + 2) \div 153
        d    == doy - ((153 * mp + 2) \div 5) + 1
        m    == IF mp < 10 THEN mp + 3 ELSE mp - 9
        y    == yoe + era * 400 + (IF m <= 2 THEN 1 ELSE 0)
    IN  [y |-> y, m |-> m, d |-> d]

\* date.toISOString(): "YYYY-MM-DDTHH:mm:ss.sssZ", always in UTC
toISOString(t) ==
    LET c   == CivilFromDays(t \div SecondsPerDay)
        sod == t % SecondsPerDay
    IN  Pad4(c.y) \o <<"-">> \o Pad2(c.m) \o <<"-">> \o Pad2(c.d) \o <<"T">>
        \o Pad2(sod \div 3600) \o <<":">> \o Pad2((sod \div 60) % 60) \o <<":">>
        \o Pad2(sod % 60) \o <<".", "0", "0", "0", "Z">>

\* str.split(sep)[0]: the part of str before the first sep
RECURSIVE SplitFirst(_, _)
SplitFirst(s, sep) ==
    IF s = <<>> \/ Head(s) = sep THEN <<>>
    ELSE <<Head(s)>> \o SplitFirst(Tail(s), sep)

\* the switch with a default of one day
DaysAgoDefaultToday(range) ==
    CASE range = "today" -> 1
      [] range = "week"  -> 7
      [] range = "month" -> 30
      [] OTHER           -> 1

\* the switch of getDateFrom
DaysAgo(range) ==
    CASE range = "today" -> 1
      [] range = "week"  -> 7
      [] range = "month" -> 30
      [] OTHER           -> 7

\* getDateFrom with the days taken for hours: the factor 24 left out
getDateFromHours(range, t) ==
    LET pastDate == t - DaysAgo(range) * 60 * 60
    IN  SplitFirst(toISOString(pastDate), "T")

\* getDateFrom(range) called when the clock shows t
getDateFrom(range, t) ==
    LET pastDate == t - DaysAgo(range) * SecondsPerDay
    IN  SplitFirst(toISOString(pastDate), "T")

\* the values the clock is drawn from: every time of day listed, on each day of
\* the two windows
TimesOfDay == {0, 1, 12 * 3600, SecondsPerDay - 1}

ClockDays == (YearEndDay .. YearEndDay + MaxDays) \cup (LeapDay .. LeapDay + MaxDays)

ClockValues == {d * SecondsPerDay + s : d \in ClockDays, s \in TimesOfDay}

\* what the date-range select offers, and values it does not offer
DateRangeOptions == {"today", "week", "month"}

OtherDateRanges == {"", "year", "Week", "7"}

-----------------------------------------------------------------------------
(* The query string between client and backend *)

\* URLSearchParams serialisation of one value (application/x-www-form-urlencoded)
RECURSIVE UrlEncode(_)
UrlEncode(s) ==
    IF s = <<>> THEN <<>>
    ELSE (CASE Head(s) = " "  -> <<"+">>
            [] Head(s) = "\t" -> <<"%", "0", "9">>
            [] Head(s) = "+"  -> <<"%", "2", "B">>
            [] Head(s) = "%"  -> <<"%", "2", "5">>
            [] Head(s) = ":"  -> <<"%", "3", "A">>
            [] OTHER          -> <<Head(s)>>) \o UrlEncode(Tail(s))

\* a parser that leaves "+" as it is
RECURSIVE UrlDecodeKeepsPlus(_)
UrlDecodeKeepsPlus(s) ==
    IF s = <<>> THEN <<>>
    ELSE IF Head(s) = "%" /\ Len(s) >= 3
         THEN (CASE SubSeq(s, 2, 3) = <<"0", "9">> -> <<"\t">>
                 [] SubSeq(s, 2, 3) = <<"2", "B">> -> <<"+">>
                 [] SubSeq(s, 2, 3) = <<"2", "5">> -> <<"%">>
                 [] SubSeq(s, 2, 3) = <<"3", "A">> -> <<":">>
                 [] OTHER                          -> SubSeq(s, 1, 3))
              \o UrlDecodeKeepsPlus(SubSeq(s, 4, Len(s)))
    ELSE <<Head(s)>> \o UrlDecodeKeepsPlus(Tail(s))

\* the query-string parser of Express on one value
RECURSIVE UrlDecode(_)
UrlDecode(s) ==
    IF s = <<>> THEN <<>>
    ELSE IF Head(s) = "+" THEN <<" ">> \o UrlDecode(Tail(s))
    ELSE IF Head(s) = "%" /\ Len(s) >= 3
         THEN (CASE SubSeq(s, 2, 3) = <<"0", "9">> -> <<"\t">>
                 [] SubSeq(s, 2, 3) = <<"2", "B">> -> <<"+">>
                 [] SubSeq(s, 2, 3) = <<"2", "5">> -> <<"%">>
                 [] SubSeq(s, 2, 3) = <<"3", "A">> -> <<":">>
                 [] OTHER                          -> SubSeq(s, 1, 3))
              \o UrlDecode(SubSeq(s, 4, Len(s)))
    ELSE <<Head(s)>> \o UrlDecode(Tail(s))

\* Keys whose values are character sequences; the values of the other keys
\* (language, sortBy, sources) are identifiers that serialise to themselves.
TextKeys == {"q", "from"}

\* `${params}`: each pair of the URLSearchParams with its value serialised
QueryString(params) ==
    [i \in 1 .. Len(params) |->
        <<params[i][1],
          IF params[i][1] \in TextKeys THEN UrlEncode(params[i][2]) ELSE params[i][2]>>]

\* req.query: the object Express parses from the query string
ParseQuery(qs) ==
    [k \in {qs[i][1] : i \in 1 .. Len(qs)} |->
        LET i == CHOOSE j \in 1 .. Len(qs) : qs[j][1] = k
        IN  IF k \in TextKeys THEN UrlDecode(qs[i][2]) ELSE qs[i][2]]

\* the URLSearchParams with the source appended whatever it is
NewsParamsAlwaysSources(query, f, t) ==
    << <<"q", query>>,
       <<"language", f.language>>,
       <<"from", getDateFrom(f.dateRange, t)>>,
       <<"sortBy", "publishedAt">>,
       <<"sources", f.source>> >>

\* the URLSearchParams fetchNews builds from the state of its render
NewsParams(query, f, t) ==
    LET params == << <<"q", query>>,
                     <<"language", f.language>>,
                     <<"from", getDateFrom(f.dateRange, t)>>,
                     <<"sortBy", "publishedAt">> >>
    IN  IF f.source # "all" THEN Append(params, <<"sources", f.source>>) ELSE params

-----------------------------------------------------------------------------
(* Backend helpers *)

\* process.env.NEWS_API_KEY
NEWS_API_KEY == "secret-key"

\* obj.key is truthy: the key is present and its value is not the empty string
Has(obj, k) ==
    k \in DOMAIN obj /\ (IF k \in TextKeys THEN obj[k] # <<>> ELSE obj[k] # "")

\* the object with the pair k: v added when cond holds
AddIf(cond, k, v, obj) == IF cond THEN (k :> v) @@ obj ELSE obj

\* buildNewsAPIParams without the step that copies from
buildNewsAPIParamsNoFrom(query) ==
    LET p0 == ("apiKey" :> NEWS_API_KEY) @@ ("pageSize" :> 20)
        p1 == AddIf(Has(query, "q"), "q", query["q"], p0)
        p2 == AddIf(Has(query, "language") /\ query["language"] # "all",
                    "language", query["language"], p1)
        p4 == AddIf(Has(query, "sources") /\ query["sources"] # "all",
                    "sources", query["sources"], p2)
    IN  ("sortBy" :> (IF Has(query, "sortBy") THEN query["sortBy"] ELSE "publishedAt"))
        @@ p4

\* buildNewsAPIParams(filters), filters being req.query
buildNewsAPIParams(query) ==
    LET p0 == ("apiKey" :> NEWS_API_KEY) @@ ("pageSize" :> 20)
        p1 == AddIf(Has(query, "q"), "q", query["q"], p0)
        p2 == AddIf(Has(query, "language") /\ query["language"] # "all",
                    "language", query["language"], p1)
        p3 == AddIf(Has(query, "from"), "from", query["from"], p2)
        p4 == AddIf(Has(query, "sources") /\ query["sources"] # "all",
                    "sources", query["sources"], p3)
    IN  ("sortBy" :> (IF Has(query, "sortBy") THEN query["sortBy"] ELSE "publishedAt"))
        @@ p4

\* The error axios.get rejects with: response tells whether the upstream
\* answered; status is the answer's status, message the message of its JSON
\* object body.
AxiosError(response, status, message) ==
    [response |-> response, status |-> status, message |-> message, body |-> "object"]

\* The error for an answer whose body is no JSON object: error.response.data is
\* null for the JSON text null, and a string ("text") for a body that is not
\* JSON or is empty.
AxiosErrorWithBody(status, body) ==
    [response |-> TRUE, status |-> status, message |-> Undefined, body |-> body]

\* in place of a code: the function threw a TypeError instead of returning
Thrown == "<throws TypeError>"

NoResponseError == AxiosError(FALSE, 0, Undefined)

\* handleAPIError without the cases 429 and 426
handleAPIErrorFewerCases(err) ==
    IF err.response
    THEN CASE err.status = 401 ->
                [error |-> "Invalid API key. Please check your NewsAPI key.",
                 code |-> "INVALID_API_KEY"]
           [] err.status = 500 ->
                [error |-> "NewsAPI server error. Please try again later.",
                 code |-> "SERVER_ERROR"]
           [] OTHER ->
                [error |-> OrElse(err.message, "Unknown error"), code |-> "API_ERROR"]
    ELSE [error |-> "Unable to connect to NewsAPI. Check your internet connection.",
          code |-> "NETWORK_ERROR"]

\* handleAPIError(error): reading .message of a null body throws, before the
\* switch is reached
handleAPIError(err) ==
    IF err.response /\ err.body = "null"
    THEN [error |-> Undefined, code |-> Thrown]
    ELSE IF err.response
    THEN LET message == OrElse(err.message, "Unknown error")
         IN  CASE err.status = 401 ->
                    [error |-> "Invalid API key. Please check your NewsAPI key.",
                     code |-> "INVALID_API_KEY"]
               [] err.status = 429 ->
                    [error |-> "API rate limit exceeded. Free tier allows 100 requests per day.",
                     code |-> "RATE_LIMIT_EXCEEDED"]
               [] err.status = 426 ->
                    [error |-> "This request requires a paid NewsAPI plan.",
                     code |-> "UPGRADE_REQUIRED"]
               [] err.status = 500 ->
                    [error |-> "NewsAPI server error. Please try again later.",
                     code |-> "SERVER_ERROR"]
               [] OTHER ->
                    [error |-> message, code |-> "API_ERROR"]
    ELSE [error |-> "Unable to connect to NewsAPI. Check your internet connection.",
          code |-> "NETWORK_ERROR"]

-----------------------------------------------------------------------------
(* Backend routes *)

\* What axios.get on the upstream API ends with:
\*   "ok"        a 2xx answer whose body carries the list (articles or sources)
\*   "malformed" a 2xx answer whose body carries no list
\*   "notalist"  a 2xx answer whose body carries an object in place of the list
\*   "error"     a non-2xx answer with a JSON object body, message possibly absent
\*   "errornull" a non-2xx answer whose body is the JSON text null
\*   "errortext" a non-2xx answer whose body is not JSON
\*   "none"      no answer: timeout after 10 s, connection refused, DNS failure
Outcome(kind, status, message, list) ==
    [kind |-> kind, status |-> status, message |-> message, list |-> list]

\* what the backend sends to the client: HTTP status and JSON body
Response(http, status, list, err, code) ==
    [http |-> http, status |-> status, list |-> list, error |-> err, code |-> code]

\* the answer of a call that has none yet
NoAnswer == Response(0, "none", <<>>, Undefined, Undefined)

\* the handler's promise rejected with an exception thrown in its catch block
Escaped == Response(0, "escaped", <<>>, Undefined, Undefined)

\* the catch block of a route: classify, then answer with the upstream status or 500
ErrorResponse(err) ==
    LET e == handleAPIError(err)
    IN  IF e.code = Thrown THEN Escaped
        ELSE Response(IF err.response THEN err.status ELSE 500, "error", <<>>,
                      e.error, e.code)

\* an object where the body should carry the list: its .length is undefined
NotAList == <<[length |-> Undefined]>>

\* The handler of a route that relays a list, given how the upstream call ended.
\* Reading .length of a list the body does not carry raises a TypeError, which
\* the catch block handles as an error without a response.
RelayRoute(o) ==
    CASE o.kind = "ok"        -> Response(200, "success", o.list, Undefined, Undefined)
      [] o.kind = "notalist"  -> Response(200, "success", NotAList, Undefined, Undefined)
      [] o.kind = "malformed" -> ErrorResponse(NoResponseError)
      [] o.kind = "error"     -> ErrorResponse(AxiosError(TRUE, o.status, o.message))
      [] o.kind = "errornull" -> ErrorResponse(AxiosErrorWithBody(o.status, "null"))
      [] o.kind = "errortext" -> ErrorResponse(AxiosErrorWithBody(o.status, "text"))
      [] OTHER                -> ErrorResponse(NoResponseError)

\* app.get('/api/news'): the parameters sent upstream, and the answer relayed
NewsRouteParams(qs) == buildNewsAPIParams(ParseQuery(qs))

NewsRoute(o) == RelayRoute(o)

\* app.get('/api/sources'): language defaults to en
SourcesRouteParams(qs) ==
    LET query == ParseQuery(qs)
    IN  ("apiKey" :> NEWS_API_KEY)
        @@ ("language" :> (IF Has(query, "language") THEN query["language"] ELSE "en"))

SourcesRoute(o) == RelayRoute(o)

\* app.get('/api/top-headlines'): the same try and catch around its upstream call
TopHeadlinesRoute(o) == RelayRoute(o)

\* app.use((err, req, res, next) => ...): the global error handler's answer
GlobalErrorResponse == Response(500, "error", <<>>, "Internal server error", Undefined)

\* What the client of a route gets for the handler's result r. An exception that
\* escapes an async handler is not caught by Express 4 (no answer is sent: NoAnswer)
\* and is passed to the global error handler by Express 5.
Delivered(r) == IF r = Escaped THEN {NoAnswer, GlobalErrorResponse} ELSE {r}

\* the answers of the upstream API the client's calls draw from (handleAPIError
\* is applied to every status under SpecError)
ErrorStatuses == {429}

UpstreamMessages == {"upstream says no"}

\* the articles the upstream finds for the i-th call: n of them
ArticlesFor(i, n) == [k \in 1 .. n |-> [call |-> i, k |-> k]]

NewsOutcomes(i) ==
    {Outcome("ok", 200, Undefined, ArticlesFor(i, n)) : n \in 0 .. MaxArticles}
    \cup {Outcome("malformed", 200, Undefined, <<>>), Outcome("none", 0, Undefined, <<>>)}
    \cup {Outcome("error", st, m, <<>>) : st \in ErrorStatuses, m \in UpstreamMessages}

SourceList == << [id |-> "bbc-news", name |-> "BBC News"] >>

SourcesOutcomes ==
    {Outcome("ok", 200, Undefined, SourceList),
     Outcome("error", 429, "rate limited", <<>>),
     Outcome("none", 0, Undefined, <<>>)}

-----------------------------------------------------------------------------
(* Client: state after construction *)

\* useState('technology')
InitialQuery == <<"t", "e", "c", "h", "n", "o", "l", "o", "g", "y">>

\* useState({ language: 'en', dateRange: 'week', source: 'all' })
InitialFilters == [language |-> "en", dateRange |-> "week", source |-> "all"]

\* the values the user gives the search input: empty, whitespace only, a word
\* between whitespace
UserQueries == {<<>>, <<"\t", " ">>, <<" ", "a", "b", " ">>}

\* options of the language select the model uses (the select offers nine)
LanguageOptions == {"en", "es"}

\* options of the source select: All Sources, then the loaded sources
SourceOptions == {"all"} \cup {sources[i].id : i \in 1 .. Len(sources)}

\* the fetch promise rejected, or response.json() did
Rejected == Response(0, "rejected", <<>>, Undefined, Undefined)

\* a call in flight, a call the backend has answered, a call whose
\* continuation has run
Sent == [stage |-> "sent", answer |-> NoAnswer]

Answered(a) == [stage |-> "answered", answer |-> a]

Settled == [stage |-> "done", answer |-> NoAnswer]

\* The request fetchNews sends from a render with the state (query, f) when the
\* clock shows t: the URL's query string, and the parameters the backend's
\* handler builds from it for the upstream call. The backend keeps no state, so
\* what it builds depends on the request alone; and the client's state does not
\* depend on what was sent, only on the answer.
NewsRequest(query, f, t) ==
    LET url == QueryString(NewsParams(query, f, t))
    IN  [fn |-> "fetchNews", query |-> query, filters |-> f, at |-> t, url |-> url,
         upstream |-> NewsRouteParams(url)]

\* JSON.stringify and JSON.parse on a boolean
JSONStringify(b) == IF b THEN "true" ELSE "false"

\* the initialiser without JSON.parse: savedMode ? true : false
JSONParseAnyText(text) == TRUE

JSONParse(text) == text = "true"

\* what a browser holds under the key darkMode: nothing, or what an earlier
\* session stored
StoredModes == {Null, "true", "false"}

ClientInit ==
    /\ pc = "init"
    /\ storage \in StoredModes
    /\ darkMode = IF Truthy(storage) THEN JSONParse(storage) ELSE FALSE
    /\ searchQuery = InitialQuery
    /\ filters = InitialFilters
    /\ articles = <<>>
    /\ loading = FALSE
    /\ error = Null
    /\ sources = <<>>
    /\ requests = <<>>
    /\ srcRequests = <<>>

\* the production build; index.js wraps App in React.StrictMode, which changes
\* nothing there
Init == ClientInit /\ strict = FALSE /\ probe = [fn |-> "none"]

\* a development build, where StrictMode runs the mount effects twice
InitDev == ClientInit /\ strict = TRUE /\ probe = [fn |-> "none"]

-----------------------------------------------------------------------------
(* Client: effects and handlers *)

\* the list with n copies of x appended
RECURSIVE AppendTimes(_, _, _)
AppendTimes(list, x, n) == IF n = 0 THEN list ELSE AppendTimes(Append(list, x), x, n - 1)

\* the guard without the trim
ShouldFetchUntrimmed(query) == query # <<>>

\* the guard of the effect on [searchQuery, filters]
ShouldFetch(query) == Trim(query) # <<>>

\* fetchNews without setError(null)
FetchEffectKeepsError(query, n) ==
    IF ShouldFetch(query)
    THEN /\ loading' = TRUE
         /\ error' = error
         /\ requests' = AppendTimes(requests, Sent, n)
    ELSE UNCHANGED <<loading, error, requests>>

\* The effect on [searchQuery, filters], run n times after a render with the
\* given query: fetchNews() starts only for a query that trims non-empty.
\* fetchNews sets loading, clears error and issues the call.
FetchEffect(query, n) ==
    IF ShouldFetch(query)
    THEN /\ loading' = TRUE
         /\ error' = Null
         /\ requests' = AppendTimes(requests, Sent, n)
    ELSE UNCHANGED <<loading, error, requests>>

\* room for the calls a trigger would issue
Room(query, n) == ShouldFetch(query) => Len(requests) + n <= MaxFetches

\* first render committed: the mount effects run (twice under StrictMode in a
\* development build): the dark-mode effect, fetchSources() and the fetch effect
Mount ==
    LET n == IF strict THEN 2 ELSE 1
    IN  /\ pc = "init"
        /\ pc' = "mounted"
        /\ srcRequests' = AppendTimes(srcRequests, Sent, n)
        /\ FetchEffect(searchQuery, n)
        /\ storage' = JSONStringify(darkMode)
        /\ UNCHANGED <<strict, darkMode, searchQuery, filters, articles, sources, probe>>

\* SearchBar handleInputChange: onSearchChange(e.target.value)
handleInputChange(value) ==
    /\ pc = "mounted"
    /\ value # searchQuery
    /\ Room(value, 1)
    /\ searchQuery' = value
    /\ FetchEffect(value, 1)
    /\ UNCHANGED <<pc, strict, darkMode, storage, filters, articles, sources, srcRequests, probe>>

\* SearchBar handleClear: the button is rendered only while there is text
handleClear ==
    /\ pc = "mounted"
    /\ searchQuery # <<>>
    /\ searchQuery' = <<>>
    /\ FetchEffect(<<>>, 1)
    /\ UNCHANGED <<pc, strict, darkMode, storage, filters, articles, sources, srcRequests, probe>>

\* App handleFilterChange(filterType, value), called from a select's onChange
handleFilterChange(filterType, value) ==
    /\ pc = "mounted"
    /\ value # filters[filterType]
    /\ Room(searchQuery, 1)
    /\ filters' = [filters EXCEPT ![filterType] = value]
    /\ FetchEffect(searchQuery, 1)
    /\ UNCHANGED <<pc, strict, darkMode, storage, searchQuery, articles, sources, srcRequests, probe>>

\* a submit handler that calls fetchNews() itself
handleSearchRefetches ==
    /\ pc = "mounted"
    /\ Len(requests) < MaxFetches
    /\ FetchEffect(searchQuery, 1)
    /\ UNCHANGED <<pc, strict, darkMode, storage, searchQuery, filters, articles,
                   sources, srcRequests, probe>>

\* handleSearch(e), the form's onSubmit: e.preventDefault() and nothing else
handleSearch ==
    /\ pc = "mounted"
    /\ UNCHANGED vars

\* the effect on [searchQuery, filters] with no dependencies: it runs after
\* every render, the one a toggle causes included
toggleDarkModeRefetches ==
    /\ pc = "mounted"
    /\ Len(requests) < MaxFetches
    /\ darkMode' = ~darkMode
    /\ storage' = JSONStringify(darkMode')
    /\ FetchEffect(searchQuery, 1)
    /\ UNCHANGED <<pc, strict, searchQuery, filters, articles, sources, srcRequests, probe>>

\* toggleDarkMode, the onClick of the DarkModeToggle button, and the dark-mode
\* effect that runs after the render it causes
toggleDarkMode ==
    /\ pc = "mounted"
    /\ darkMode' = ~darkMode
    /\ storage' = JSONStringify(darkMode')
    /\ UNCHANGED <<pc, strict, searchQuery, filters, articles, loading, error, sources,
                   requests, srcRequests, probe>>

FilterChange ==
    \/ \E v \in LanguageOptions : handleFilterChange("language", v)
    \/ \E v \in DateRangeOptions : handleFilterChange("dateRange", v)
    \/ \E v \in SourceOptions : handleFilterChange("source", v)

\* the backend handles the i-th /api/news call and answers it
NewsBackend(i) ==
    /\ i \in DOMAIN requests
    /\ requests[i].stage = "sent"
    /\ \E o \in NewsOutcomes(i) : requests' = [requests EXCEPT ![i] = Answered(NewsRoute(o))]
    /\ UNCHANGED <<pc, strict, darkMode, storage, searchQuery, filters, articles, loading, error, sources,
                   srcRequests, probe>>

\* the backend cannot be reached: fetch rejects
NewsUnreachable(i) ==
    /\ i \in DOMAIN requests
    /\ requests[i].stage = "sent"
    /\ requests' = [requests EXCEPT ![i] = Answered(Rejected)]
    /\ UNCHANGED <<pc, strict, darkMode, storage, searchQuery, filters, articles, loading, error, sources,
                   srcRequests, probe>>

\* the else branch with the fallback message only
ErrorAfterFallbackOnly(a) ==
    CASE a.status = "rejected" ->
            "Failed to connect to the server. Make sure the backend is running on port 5000."
      [] a.status = "success" ->
            IF Len(a.list) = 0
            THEN "No articles found. Try different search terms or filters."
            ELSE error
      [] OTHER -> "Failed to fetch news"

\* fetchNews after its awaits, for an answer a: try / catch / finally
ArticlesAfter(a) == IF a.status = "success" THEN a.list ELSE articles

ErrorAfter(a) ==
    CASE a.status = "rejected" ->
            "Failed to connect to the server. Make sure the backend is running on port 5000."
      [] a.status = "success" ->
            IF Len(a.list) = 0
            THEN "No articles found. Try different search terms or filters."
            ELSE error
      [] OTHER -> OrElse(a.error, "Failed to fetch news")

\* fetchNews without its finally block
LoadingAfterNoFinally(a) == loading

LoadingAfter(a) == FALSE

\* fetchNews with neither catch nor finally: a call that raised leaves the
\* state as it is
NewsSettleNoCatch(i) ==
    /\ i \in DOMAIN requests
    /\ requests[i].stage = "answered"
    /\ IF requests[i].answer.status = "rejected"
       THEN UNCHANGED <<articles, error, loading>>
       ELSE /\ articles' = ArticlesAfter(requests[i].answer)
            /\ error' = ErrorAfter(requests[i].answer)
            /\ loading' = FALSE
    /\ requests' = [requests EXCEPT ![i] = Settled]
    /\ UNCHANGED <<pc, strict, darkMode, storage, searchQuery, filters, sources,
                   srcRequests, probe>>

\* the continuation of the i-th fetchNews call runs
NewsSettle(i) ==
    /\ i \in DOMAIN requests
    /\ requests[i].stage = "answered"
    /\ articles' = ArticlesAfter(requests[i].answer)
    /\ error' = ErrorAfter(requests[i].answer)
    /\ loading' = LoadingAfter(requests[i].answer)
    /\ requests' = [requests EXCEPT ![i] = Settled]
    /\ UNCHANGED <<pc, strict, darkMode, storage, searchQuery, filters, sources, srcRequests, probe>>

\* fetchSources with a catch block that reports the failure as fetchNews does
SourcesSettleReportsFailure(j) ==
    /\ j \in DOMAIN srcRequests
    /\ srcRequests[j].stage = "sent"
    /\ \E a \in {SourcesRoute(o) : o \in SourcesOutcomes} \cup {Rejected} :
          /\ sources' = (IF a.status = "success" THEN a.list ELSE sources)
          /\ error' = (IF a.status = "success" THEN error ELSE "Failed to fetch sources")
    /\ srcRequests' = [srcRequests EXCEPT ![j] = Settled]
    /\ UNCHANGED <<pc, strict, darkMode, storage, searchQuery, filters, articles, loading,
                   requests, probe>>

\* fetchSources after its awaits, for an answer a
SourcesAfter(a) == IF a.status = "success" THEN a.list ELSE sources

\* The j-th /api/sources call ends and the continuation of fetchSources runs:
\* the backend answered it, or could not be reached.
SourcesSettle(j) ==
    /\ j \in DOMAIN srcRequests
    /\ srcRequests[j].stage = "sent"
    /\ \E a \in {SourcesRoute(o) : o \in SourcesOutcomes} \cup {Rejected} :
          sources' = SourcesAfter(a)
    /\ srcRequests' = [srcRequests EXCEPT ![j] = Settled]
    /\ UNCHANGED <<pc, strict, darkMode, storage, searchQuery, filters, articles, loading, error, requests,
                   probe>>

Next ==
    \/ Mount
    \/ \E v \in UserQueries : handleInputChange(v)
    \/ handleClear
    \/ handleSearch
    \/ toggleDarkMode
    \/ FilterChange
    \/ \E i \in 1 .. Len(requests) : NewsBackend(i)
    \/ \E i \in 1 .. Len(requests) : NewsUnreachable(i)
    \/ \E i \in 1 .. Len(requests) : NewsSettle(i)
    \/ \E j \in 1 .. Len(srcRequests) : SourcesSettle(j)

Spec == Init /\ [][Next]_vars

SpecDev == InitDev /\ [][Next]_vars

\* the continuation of an answered call runs: the event loop runs every
\* continuation that is ready
FairSpec ==
    /\ Init
    /\ [][Next]_vars
    /\ WF_vars(\E i \in 1 .. MaxFetches : NewsSettle(i))

\* Every call that was issued ends and its continuation runs: the backend
\* answers within the 10 s of its upstream timeout, or the fetch fails, and the
\* event loop runs the continuation.
FairSpecAnswered ==
    /\ Init
    /\ [][Next]_vars
    /\ WF_vars(\E i \in 1 .. MaxFetches :
                  NewsBackend(i) \/ NewsUnreachable(i) \/ NewsSettle(i))

-----------------------------------------------------------------------------
(* Client: what the results section renders *)

\* {loading && <LoadingSpinner />}
ShowsSpinner == loading

\* {error && !loading && <div className="error-message">}
ShowsErrorBanner == Truthy(error) /\ ~loading

\* {!loading && !error && articles.length > 0 && <NewsList>}
ShowsArticleList == ~loading /\ ~Truthy(error) /\ Len(articles) > 0

\* the welcome message without its articles.length === 0 test
ShowsWelcomeOverArticles == ~loading /\ ~Truthy(error) /\ searchQuery = <<>>

\* {!loading && !error && articles.length === 0 && !searchQuery && welcome}
ShowsWelcome == ~loading /\ ~Truthy(error) /\ Len(articles) = 0 /\ searchQuery = <<>>

-----------------------------------------------------------------------------
(* Direct calls of the pure helpers, on inputs drawn from bounded sets: one *)
(* call per behaviour, its input and result kept in probe                  *)

\* getDateFrom(range) called when the clock shows t
CallGetDateFrom(range, t) ==
    /\ probe.fn = "none"
    /\ probe' = [fn |-> "getDateFrom", range |-> range, at |-> t,
                 out |-> getDateFrom(range, t)]
    /\ UNCHANGED clientVars

NextDate == \E range \in DateRangeOptions \cup OtherDateRanges, t \in ClockValues :
                CallGetDateFrom(range, t)

SpecDate == Init /\ [][NextDate]_vars

\* a JavaScript string as the sequence of its characters, and the two values
\* an article's field holds when the upstream sent none
StringOf(chars) == [type |-> "string", chars |-> chars]
MissingTexts == {[type |-> "null"], [type |-> "undefined"]}

MaxTextLen == 4
MaxTruncate == 3
TitleLimit == 100
DescriptionLimit == 150

Ellipsis == <<".", ".", ".">>

\* String.prototype.substring(0, n)
Substring0(chars, n) ==
    SubSeq(chars, 1, IF n < 0 THEN 0 ELSE IF n > Len(chars) THEN Len(chars) ELSE n)

\* truncateText(text, maxLength)
truncateText(text, maxLength) ==
    IF text.type # "string" \/ Len(text.chars) = 0 THEN <<>>
    ELSE IF Len(text.chars) <= maxLength THEN text.chars
    ELSE Substring0(text.chars, maxLength) \o Ellipsis

RECURSIVE StringsUpTo(_)
StringsUpTo(n) ==
    IF n = 0 THEN {<<>>}
    ELSE LET shorter == StringsUpTo(n - 1)
         IN  shorter \cup {Append(c, x) : c \in {d \in shorter : Len(d) = n - 1},
                                           x \in {"a", "b"}}

ShortTexts == {StringOf(c) : c \in StringsUpTo(MaxTextLen)} \cup MissingTexts

\* a text of n characters
TextOfLength(n) == StringOf([i \in 1 .. n |-> "a"])

\* the titles and descriptions of the articles a card is given: around the
\* limits of the two calls, and absent
CardTitles == {TextOfLength(n) : n \in {1, TitleLimit, TitleLimit + 1}} \cup MissingTexts
CardDescriptions ==
    {TextOfLength(n) : n \in {0, DescriptionLimit, DescriptionLimit + 1}} \cup MissingTexts

CallTruncateText(text, maxLength) ==
    /\ probe.fn = "none"
    /\ probe' = [fn |-> "truncateText", text |-> text, maxLength |-> maxLength,
                 out |-> truncateText(text, maxLength)]
    /\ UNCHANGED clientVars

\* NewsCard renders an article: the title always, the description when it is
\* truthy
RenderCard(title, description) ==
    /\ probe.fn = "none"
    /\ probe' = [fn |-> "NewsCard", title |-> title, description |-> description,
                 shownTitle |-> truncateText(title, TitleLimit),
                 showsDescription |->
                     (description.type = "string" /\ Len(description.chars) > 0),
                 shownDescription |-> truncateText(description, DescriptionLimit)]
    /\ UNCHANGED clientVars

NextCard ==
    \/ \E text \in ShortTexts, maxLength \in 0 .. MaxTruncate :
          CallTruncateText(text, maxLength)
    \/ \E title \in CardTitles, description \in CardDescriptions :
          RenderCard(title, description)

SpecCard == Init /\ [][NextCard]_vars

\* the errors axios.get can reject with
AxiosErrors ==
    {AxiosError(TRUE, st, m) : st \in (400 .. 431) \cup (500 .. 511),
                               m \in {"upstream says no", "", Undefined}}
    \cup {NoResponseError}

\* handleAPIError(error)
CallHandleAPIError(err) ==
    /\ probe.fn = "none"
    /\ probe' = [fn |-> "handleAPIError", err |-> err, out |-> handleAPIError(err)]
    /\ UNCHANGED clientVars

NextError == \E err \in AxiosErrors : CallHandleAPIError(err)

SpecError == Init /\ [][NextError]_vars

\* ids of sources the upstream API lists
SourceIds == {"bbc-news", "cnn"}

\* every FilterState, and the values a select does not offer
FilterStates ==
    [language : LanguageOptions,
     dateRange : DateRangeOptions \cup OtherDateRanges,
     source : {"all"} \cup SourceIds]

\* fetchNews builds its request from (query, f) at time t and the backend's
\* /api/news handler builds the upstream parameters from it
BuildRequest(query, f, t) ==
    /\ probe.fn = "none"
    /\ probe' = NewsRequest(query, f, t)
    /\ UNCHANGED clientVars

NextParams == \E query \in UserQueries \cup {InitialQuery}, f \in FilterStates,
                 t \in ClockValues : BuildRequest(query, f, t)

SpecParams == Init /\ [][NextParams]_vars

\* The values each key of an incoming /api/news query string is drawn from, as
\* they are on the wire; any client can send them, not only this one.
RawValues ==
    [q        |-> {<<>>, <<"a">>, <<"+">>, <<"%", "0", "9", "+">>},
     language |-> {"", "en", "all"},
     from     |-> {<<"2", "0", "2", "4", "-", "0", "1", "-", "0", "1">>},
     sources  |-> {"all", "bbc-news"},
     sortBy   |-> {"", "publishedAt", "popularity"}]

RequestKeys == <<"q", "language", "from", "sources", "sortBy">>

\* every query string with each of the keys absent or present once
RECURSIVE RawQueries(_)
RawQueries(keys) ==
    IF keys = <<>> THEN {<<>>}
    ELSE LET rest == RawQueries(Tail(keys))
         IN  rest \cup {<< <<Head(keys), v>> >> \o r : v \in RawValues[Head(keys)], r \in rest}

\* GET /api/news?qs arrives: the handler builds the upstream parameters
CallBuildNewsAPIParams(qs) ==
    /\ probe.fn = "none"
    /\ probe' = [fn |-> "buildNewsAPIParams", url |-> qs, query |-> ParseQuery(qs),
                 upstream |-> NewsRouteParams(qs)]
    /\ UNCHANGED clientVars

\* the routes with an upstream call
UpstreamRoutes == {"/api/news", "/api/top-headlines", "/api/sources"}

RouteResult(route, o) ==
    CASE route = "/api/news"          -> NewsRoute(o)
      [] route = "/api/top-headlines" -> TopHeadlinesRoute(o)
      [] OTHER                        -> SourcesRoute(o)

\* the ways the upstream call of a route can end
UpstreamOutcomes ==
    {Outcome("ok", 200, Undefined, l) : l \in {<<>>, SourceList}}
    \cup {Outcome(k, 200, Undefined, <<>>) : k \in {"malformed", "notalist"}}
    \cup {Outcome("none", 0, Undefined, <<>>)}
    \cup {Outcome("error", e.status, e.message, <<>>) : e \in AxiosErrors \ {NoResponseError}}
    \cup {Outcome(k, st, Undefined, <<>>) : k \in {"errornull", "errortext"},
                                            st \in {401, 404, 429, 500, 502}}

\* a request to a route arrives, its upstream call ends with o, and the client
\* gets what the handler sends
CallRoute(route, o) ==
    /\ probe.fn = "none"
    /\ \E r \in Delivered(RouteResult(route, o)) :
          probe' = [fn |-> "route", route |-> route, outcome |-> o, out |-> r]
    /\ UNCHANGED clientVars

NextBackend ==
    \/ \E qs \in RawQueries(RequestKeys) : CallBuildNewsAPIParams(qs)
    \/ \E route \in UpstreamRoutes, o \in UpstreamOutcomes : CallRoute(route, o)

SpecBackend == Init /\ [][NextBackend]_vars

-----------------------------------------------------------------------------
(* The backend process: startup, middleware, routes, 404 and error handler *)

\* process.env.NEWS_API_KEY after dotenv: not set, set to nothing, set to a key
EnvKeys == {Undefined, "", "key-one", "key-two"}

\* a startup that does not check the key
ServerStartsAnyway(key) == TRUE

\* if (!NEWS_API_KEY) process.exit(1), which runs before app.listen
ServerStarts(key) == Truthy(key)

\* the requests the model sends: method, path, and whether a body comes with
\* it that is JSON or, under Content-Type application/json, is not
Methods == {"GET", "POST", "OPTIONS"}

Paths == {"/api/health", "/api/news", "/api/top-headlines", "/api/sources",
          "/api/unknown", "/"}

Bodies == {"none", "json", "malformed"}

\* an exception that escapes an async handler: Express 4 sends no answer,
\* Express 5 passes it to the global error handler
ExpressVersions == {"4", "5"}

DeliveredBy(express, r) ==
    IF r = Escaped THEN (IF express = "4" THEN NoAnswer ELSE GlobalErrorResponse) ELSE r

\* cors() ends every OPTIONS request itself
PreflightResponse == [http |-> 204]

\* app.use((err, req, res, next) => ...), with err.message in the body
GlobalErrorBody(message) ==
    [http |-> 500, status |-> "error", error |-> "Internal server error",
     message |-> message]

\* app.get('/api/health')
HealthResponse(t) ==
    [http |-> 200, status |-> "OK", message |-> "NewsAPI Dashboard Backend is running",
     timestamp |-> toISOString(t)]

\* app.use((req, res) => ...): the 404 handler
NotFoundResponse ==
    [http |-> 404, status |-> "error", error |-> "Endpoint not found",
     availableEndpoints |-> <<"GET /api/health", "GET /api/news",
                              "GET /api/top-headlines", "GET /api/sources">>]

\* app.get('/api/top-headlines'): country, category and q when given
TopHeadlinesRouteParams(qs) ==
    LET query == ParseQuery(qs)
        p0 == ("apiKey" :> NEWS_API_KEY) @@ ("pageSize" :> 20)
        p1 == AddIf(Has(query, "country"), "country", query["country"], p0)
        p2 == AddIf(Has(query, "category"), "category", query["category"], p1)
    IN  AddIf(Has(query, "q"), "q", query["q"], p2)

\* the parameters a handler builds, in a process whose NEWS_API_KEY is key
ParamsUnder(key, params) ==
    [k \in DOMAIN params |-> IF k = "apiKey" THEN key ELSE params[k]]

\* axios.get(`${NEWS_API_BASE_URL}/...`, {params, timeout})
NoUpstreamCall == [endpoint |-> "none"]

UpstreamCall(endpoint, params) == [endpoint |-> endpoint, params |-> params]

RouteCall(key, path, qs) ==
    CASE path = "/api/news" ->
            UpstreamCall("/everything", ParamsUnder(key, NewsRouteParams(qs)))
      [] path = "/api/top-headlines" ->
            UpstreamCall("/top-headlines", ParamsUnder(key, TopHeadlinesRouteParams(qs)))
      [] OTHER ->
            UpstreamCall("/sources", ParamsUnder(key, SourcesRouteParams(qs)))

\* a catch block that spreads the request parameters into the error body
ServeUpstreamRouteEchoesParams(key, express, path, qs, o) ==
    LET r == DeliveredBy(express, RouteResult(path, o))
    IN  [call |-> RouteCall(key, path, qs),
         out |-> IF r.status = "error" THEN [r EXCEPT !.error = key] ELSE r]

\* a handler with an upstream call: the call it makes and what the client gets
\* when the call ends with o
ServeUpstreamRoute(key, express, path, qs, o) ==
    [call |-> RouteCall(key, path, qs),
     out |-> DeliveredBy(express, RouteResult(path, o))]

\* The middleware stack in the order of app.use and app.get: cors(),
\* express.json(), the four routes, the 404 handler; an error passed on by a
\* middleware goes to the global error handler.
ServeRequest(key, express, method, path, body, qs, o, t) ==
    IF method = "OPTIONS"
    THEN [call |-> NoUpstreamCall, out |-> PreflightResponse]
    ELSE IF body = "malformed"
    THEN [call |-> NoUpstreamCall, out |-> GlobalErrorBody("Unexpected token in JSON")]
    ELSE IF method = "GET" /\ path = "/api/health"
    THEN [call |-> NoUpstreamCall, out |-> HealthResponse(t)]
    ELSE IF method = "GET" /\ path \in UpstreamRoutes
    THEN ServeUpstreamRoute(key, express, path, qs, o)
    ELSE [call |-> NoUpstreamCall, out |-> NotFoundResponse]

\* another key than key
OtherKey(key) == IF key = "key-one" THEN "key-two" ELSE "key-one"

\* query strings and upstream behaviours the requests are drawn from
ServerQueries ==
    {<<>>,
     << <<"q", <<"a">>>>, <<"language", "es">> >>,
     << <<"country", "us">>, <<"sortBy", "popularity">> >>}

ServerOutcomes ==
    {Outcome("ok", 200, Undefined, SourceList),
     Outcome("malformed", 200, Undefined, <<>>),
     Outcome("none", 0, Undefined, <<>>),
     Outcome("error", 401, "upstream says no", <<>>),
     Outcome("error", 404, "upstream says no", <<>>),
     Outcome("errornull", 502, Undefined, <<>>)}

\* node server.js in an environment whose NEWS_API_KEY is key
StartServer(key) ==
    /\ probe.fn = "none"
    /\ probe' = [fn |-> "server", key |-> key, served |-> FALSE,
                 phase |-> IF ServerStarts(key) THEN "listening" ELSE "exited"]
    /\ UNCHANGED clientVars

\* A request arrives at the listening process when the clock shows t, and the
\* upstream call, if one is made, ends with o. twin is what a process that
\* differs in the key alone sends for the same request.
HandleRequest(express, method, path, body, qs, o, t) ==
    /\ probe.fn = "server"
    /\ probe.phase = "listening"
    /\ ~probe.served
    /\ LET r == ServeRequest(probe.key, express, method, path, body, qs, o, t)
       IN  probe' = [fn |-> "server", key |-> probe.key, served |-> TRUE,
                     phase |-> "listening", express |-> express, method |-> method,
                     path |-> path, body |-> body, url |-> qs, outcome |-> o,
                     call |-> r.call, out |-> r.out,
                     twin |-> ServeRequest(OtherKey(probe.key), express, method, path,
                                           body, qs, o, t).out]
    /\ UNCHANGED clientVars

NextServer ==
    \/ \E key \in EnvKeys : StartServer(key)
    \/ \E express \in ExpressVersions, method \in Methods, path \in Paths,
          body \in Bodies, qs \in ServerQueries, o \in ServerOutcomes :
            HandleRequest(express, method, path, body, qs, o, YearEndDay * SecondsPerDay)

SpecServer == Init /\ [][NextServer]_vars

-----------------------------------------------------------------------------
(* Request lifecycle: claims C1 - C3 *)

\* the latest call issued, the current one, has not been settled
CurrentOutstanding == Len(requests) > 0 /\ requests[Len(requests)].stage # "done"

\* the continuation of call i runs in this step
Settles(i) ==
    i <= Len(requests) /\ requests[i].stage = "answered" /\ requests'[i].stage = "done"

\* a call is issued in this step
Issues == Len(requests') > Len(requests)

\* C1: the answer of a superseded call (one issued before the latest trigger)
\* is never applied: its continuation leaves articles, error and loading as
\* they are, so that what is shown in the end is the latest trigger's result.
C1_StaleAnswerDiscarded ==
    [][\A i \in 1 .. MaxFetches :
          (Settles(i) /\ i < Len(requests))
              => UNCHANGED <<articles, error, loading>>]_vars

\* C2: a /news call is issued only in a step that leaves a query which is
\* neither empty nor whitespace-only.
C2_NoFetchOnBlankQuery == [][Issues => Trim(searchQuery') # <<>>]_vars

\* C2's case: the query was changed to a whitespace-only value and the only call
\* ever issued is the one of the mount
C2_Witness ==
    /\ pc = "mounted"
    /\ searchQuery = <<"\t", " ">>
    /\ Len(requests) = 1

\* C3: a step that changes the query to an empty or whitespace-only value ends
\* in Idle: not loading, no message held, no articles of an earlier query held.
C3_BlankQueryIsIdle ==
    [][(searchQuery' # searchQuery /\ Trim(searchQuery') = <<>>)
          => (~loading' /\ error' = Null /\ articles' = <<>>)]_vars

-----------------------------------------------------------------------------
(* Error classification and the failure and empty-result states: C4 - C7 *)

\* the fixed messages, as the documentation lists them
InvalidKeyMessage == "Invalid API key. Please check your NewsAPI key."

RateLimitMessage == "API rate limit exceeded. Free tier allows 100 requests per day."

UpgradeMessage == "This request requires a paid NewsAPI plan."

ServerErrorMessage == "NewsAPI server error. Please try again later."

ConnectionMessage == "Unable to connect to NewsAPI. Check your internet connection."

\* the (message, code) pair the table gives an error; for a status it does not
\* list, the message is the upstream's when the upstream's body carries one
MatchesTable(e, r) ==
    IF ~e.response
    THEN r = [error |-> ConnectionMessage, code |-> "NETWORK_ERROR"]
    ELSE CASE e.status = 401 -> r = [error |-> InvalidKeyMessage, code |-> "INVALID_API_KEY"]
           [] e.status = 429 -> r = [error |-> RateLimitMessage, code |-> "RATE_LIMIT_EXCEEDED"]
           [] e.status = 426 -> r = [error |-> UpgradeMessage, code |-> "UPGRADE_REQUIRED"]
           [] e.status = 500 -> r = [error |-> ServerErrorMessage, code |-> "SERVER_ERROR"]
           [] OTHER -> /\ r.code = "API_ERROR"
                       /\ Truthy(e.message) => r.error = e.message

C5_RateLimitReachesFailure ==
    (\E i \in 1 .. MaxFetches :
        i <= Len(requests) /\ requests[i].stage = "answered" /\ requests[i].answer.http = 429)
            ~> (error = RateLimitMessage /\ ~loading /\ ShowsErrorBanner /\ ~ShowsSpinner)

\* C5's case: every call is settled and the rate-limit message is on display
C5_Witness ==
    /\ Len(requests) > 0
    /\ \A i \in 1 .. Len(requests) : requests[i].stage = "done"
    /\ error = RateLimitMessage /\ ShowsErrorBanner /\ ~ShowsSpinner

\* C6: when the continuation of a call applies a success answer with an empty
\* list, the articles are empty and the error banner is not shown.
C6_EmptyResultIsNotAnError ==
    [][\A i \in 1 .. MaxFetches :
          (Settles(i) /\ requests[i].answer.status = "success"
              /\ Len(requests[i].answer.list) = 0)
              => (articles' = <<>> /\ ~ShowsErrorBanner')]_vars

\* the four request states, as the results section tells them apart
IsLoading == loading

IsFailure == ~loading /\ Truthy(error)

IsSuccess == ~loading /\ ~Truthy(error) /\ Len(articles) > 0

IsIdle == ~loading /\ ~Truthy(error) /\ Len(articles) = 0

\* C7: exactly one of Idle, Loading, Success, Failure holds, and while the
\* current call is outstanding it is Loading.
C7_LoadingWhileCurrentOutstanding ==
    /\ Cardinality({b \in {<<1, IsIdle>>, <<2, IsLoading>>, <<3, IsSuccess>>, <<4, IsFailure>>} :
                        b[2]}) = 1
    /\ CurrentOutstanding => IsLoading

-----------------------------------------------------------------------------
(* Query builder: C8 - C10 *)

\* the calendar, for stepping back one date at a time
IsLeapYear(y) == (y % 4 = 0 /\ y % 100 # 0) \/ y % 400 = 0

DaysInMonth(y, m) ==
    CASE m \in {4, 6, 9, 11} -> 30
      [] m = 2               -> IF IsLeapYear(y) THEN 29 ELSE 28
      [] OTHER               -> 31

\* the date before the date c
PreviousDate(c) ==
    IF c.d > 1 THEN [c EXCEPT !.d = c.d - 1]
    ELSE IF c.m > 1 THEN [y |-> c.y, m |-> c.m - 1, d |-> DaysInMonth(c.y, c.m - 1)]
    ELSE [y |-> c.y - 1, m |-> 12, d |-> 31]

RECURSIVE DateMinusDays(_, _)
DateMinusDays(c, n) == IF n = 0 THEN c ELSE DateMinusDays(PreviousDate(c), n - 1)

\* YYYY-MM-DD
IsoDate(c) == Pad4(c.y) \o <<"-">> \o Pad2(c.m) \o <<"-">> \o Pad2(c.d)

\* today's date (UTC) when the clock shows t, whatever the time of day
TodaysDate(t) == CivilFromDays(t \div SecondsPerDay)

\* the days each date range goes back
RangeDays == [today |-> 1, week |-> 7, month |-> 30]

\* C8: for today, week and month, getDateFrom returns the calendar date 1, 7
\* and 30 days before today's date, as YYYY-MM-DD, for every time of day.
C8_DateFromIsTodayMinusDays ==
    (probe.fn = "getDateFrom" /\ probe.range \in DateRangeOptions)
        => probe.out = IsoDate(DateMinusDays(TodaysDate(probe.at), RangeDays[probe.range]))

\* C8's case: a month back from the last second of 2024-03-01, across the leap day
C8_Witness ==
    /\ probe.fn = "getDateFrom"
    /\ probe.range = "month"
    /\ probe.at = (LeapDay + 2) * SecondsPerDay + SecondsPerDay - 1
    /\ probe.out = <<"2", "0", "2", "4", "-", "0", "1", "-", "3", "1">>

\* the key's value in a URL query string; <<>> when the key is absent
PairsOf(url, key) == {i \in 1 .. Len(url) : url[i][1] = key}

\* C9: for a dateRange that is none of today, week, month, the request and the
\* upstream parameters are those built for week, with a well-formed from date.
C9_UnknownRangeIsWeek ==
    (probe.fn = "fetchNews" /\ probe.filters.dateRange \notin DateRangeOptions)
        => LET week == NewsRequest(probe.query, [probe.filters EXCEPT !.dateRange = "week"],
                                   probe.at)
           IN  /\ probe.url = week.url
               /\ probe.upstream = week.upstream
               /\ Len(probe.upstream["from"]) = 10
               /\ probe.upstream["from"] =
                      IsoDate(DateMinusDays(TodaysDate(probe.at), RangeDays["week"]))

\* C9's case: a request built for the range "year" on 2024-01-01
C9_Witness ==
    /\ probe.fn = "fetchNews"
    /\ probe.filters.dateRange = "year"
    /\ probe.at = (YearEndDay + 1) * SecondsPerDay
    /\ probe.upstream["from"] = <<"2", "0", "2", "3", "-", "1", "2", "-", "2", "5">>

\* C10: the request and the upstream parameters carry no sources key when the
\* source filter is "all", and otherwise carry sources with exactly its value.
C10_SourcesKey ==
    probe.fn = "fetchNews"
        => IF probe.filters.source = "all"
           THEN /\ PairsOf(probe.url, "sources") = {}
                /\ "sources" \notin DOMAIN probe.upstream
           ELSE /\ \E i \in 1 .. Len(probe.url) :
                      /\ PairsOf(probe.url, "sources") = {i}
                      /\ probe.url[i][2] = probe.filters.source
                /\ "sources" \in DOMAIN probe.upstream
                /\ probe.upstream["sources"] = probe.filters.source

\* C10's cases: a request for one source, reaching the upstream parameters
C10_Witness ==
    /\ probe.fn = "fetchNews"
    /\ probe.filters.source = "bbc-news"
    /\ probe.upstream["sources"] = "bbc-news"

-----------------------------------------------------------------------------
(* Query builder, continued: C11 - C14 *)

\* C11: for an empty or whitespace-only query, neither the request the client
\* builds nor the upstream parameters the backend builds from it carry q.
C11_BlankQueryOmitsQ ==
    (probe.fn = "fetchNews" /\ Trim(probe.query) = <<>>)
        => (PairsOf(probe.url, "q") = {} /\ "q" \notin DOMAIN probe.upstream)

\* the days a date range goes back, week for a range the select does not offer
EffectiveDays(range) == IF range \in DateRangeOptions THEN RangeDays[range] ELSE RangeDays["week"]

\* C12: for a non-empty query and source "all" the upstream parameters have
\* exactly the keys q, language, from, sortBy, pageSize and apiKey, with q the
\* query, language the language filter, from today's date minus the range's
\* days, sortBy publishedAt and pageSize 20.
C12_ParamsForAllSources ==
    (probe.fn = "fetchNews" /\ probe.query # <<>> /\ probe.filters.source = "all")
        => /\ DOMAIN probe.upstream = {"q", "language", "from", "sortBy", "pageSize", "apiKey"}
           /\ probe.upstream["q"] = probe.query
           /\ probe.upstream["language"] = probe.filters.language
           /\ probe.upstream["from"] =
                  IsoDate(DateMinusDays(TodaysDate(probe.at),
                                        EffectiveDays(probe.filters.dateRange)))
           /\ probe.upstream["sortBy"] = "publishedAt"
           /\ probe.upstream["pageSize"] = 20

\* C12's case: a query with spaces around a word, es, month, all
C12_Witness ==
    /\ probe.fn = "fetchNews"
    /\ probe.query = <<" ", "a", "b", " ">>
    /\ probe.filters = [language |-> "es", dateRange |-> "month", source |-> "all"]
    /\ probe.upstream["q"] = <<" ", "a", "b", " ">>
    /\ "sources" \notin DOMAIN probe.upstream

\* C13: whatever the incoming /news request, the upstream parameters have
\* sortBy = publishedAt and pageSize = 20.
C13_SortAndPageSizeFixed ==
    probe.fn = "buildNewsAPIParams"
        => (probe.upstream["sortBy"] = "publishedAt" /\ probe.upstream["pageSize"] = 20)

\* the filter a FilterState stands for when the clock shows t
EffectiveFilter(f, t) ==
    [language |-> f.language,
     from     |-> IsoDate(DateMinusDays(TodaysDate(t), EffectiveDays(f.dateRange))),
     source   |-> f.source]

\* the filter the upstream parameters express: no language is every language,
\* no sources is every source
UpstreamFilter(params) ==
    [language |-> IF "language" \in DOMAIN params THEN params["language"] ELSE "all",
     from     |-> IF "from" \in DOMAIN params THEN params["from"] ELSE <<>>,
     source   |-> IF "sources" \in DOMAIN params THEN params["sources"] ELSE "all"]

\* C14: the upstream parameters the backend builds from the client's request
\* express the language, from date and source of the FilterState it was built
\* from.
C14_FilterRoundTrip ==
    probe.fn = "fetchNews"
        => UpstreamFilter(probe.upstream) = EffectiveFilter(probe.filters, probe.at)

\* C14's case: a FilterState with every field off its default
C14_Witness ==
    /\ probe.fn = "fetchNews"
    /\ probe.filters = [language |-> "es", dateRange |-> "today", source |-> "cnn"]
    /\ probe.at = LeapDay * SecondsPerDay + 1
    /\ UpstreamFilter(probe.upstream) =
           [language |-> "es",
            from |-> <<"2", "0", "2", "4", "-", "0", "2", "-", "2", "7">>,
            source |-> "cnn"]

-----------------------------------------------------------------------------
(* Failures, on the backend and on the client: C15 - C17 *)

\* the six kinds a failure is classified into
ErrorCodes ==
    {"INVALID_API_KEY", "RATE_LIMIT_EXCEEDED", "UPGRADE_REQUIRED", "SERVER_ERROR",
     "API_ERROR", "NETWORK_ERROR"}

\* the upstream call did not end with a well-formed success
UpstreamFailed(o) == o.kind # "ok"

\* C15: whenever the upstream call of /news, /top-headlines or /sources fails,
\* the client of the route gets an error response with an error message and a
\* code that is one of the six kinds.
C15_EveryFailureClassified ==
    (probe.fn = "route" /\ UpstreamFailed(probe.outcome))
        => /\ probe.out.status = "error"
           /\ Truthy(probe.out.error)
           /\ probe.out.code \in ErrorCodes

\* the message of the client for a call that raised
ServerUnreachableMessage ==
    "Failed to connect to the server. Make sure the backend is running on port 5000."

\* C16: when the continuation of a call applies an answer whose body reports an
\* error, the message held is the one of the body; when the call itself raised,
\* it is the fixed connection-failed message; either way the state is Failure
\* with loading false.
C16_FailureMessageSource ==
    [][\A i \in 1 .. MaxFetches :
          Settles(i) =>
              /\ requests[i].answer.status = "error"
                    => (error' = requests[i].answer.error /\ IsFailure')
              /\ requests[i].answer.status = "rejected"
                    => (error' = ServerUnreachableMessage /\ IsFailure')]_vars

\* C16's case: the last call raised, and its message is on display
C16_Witness ==
    /\ Len(requests) = MaxFetches
    /\ \A i \in 1 .. Len(requests) : requests[i].stage = "done"
    /\ error = ServerUnreachableMessage
    /\ IsFailure

\* C17: a step that issues a call ends with loading true and error null, and
\* error changes only in a step that issues a call or applies an answer.
C17_FetchStartClearsError ==
    [][/\ Issues => (loading' /\ error' = Null)
       /\ error' # error => (Issues \/ \E i \in 1 .. MaxFetches : Settles(i))]_vars

\* C17's case: the first call ended with a message held (no articles came of
\* it), and the second call is in flight with the message cleared
C17_Witness ==
    /\ Len(requests) = 2
    /\ requests[1].stage = "done" /\ requests[2].stage = "sent"
    /\ articles = <<>>
    /\ loading /\ error = Null

-----------------------------------------------------------------------------
(* Triggers, retry and the source list: C18 - C20 *)

\* the first render is committed in this step
Mounts == pc = "init" /\ pc' = "mounted"

\* the query or a filter is changed in this step
Changes == searchQuery' # searchQuery \/ filters' # filters

\* C18: a step that changes the query or a filter and leaves a query that trims
\* non-empty issues exactly one /news call, as does the first render; no other
\* step (form submit, theme toggle, arrival of an answer or of the source list,
\* a change that leaves a blank query) issues any.
C18_OneFetchPerChange ==
    [][Len(requests') - Len(requests) =
          (IF Mounts \/ (Changes /\ Trim(searchQuery') # <<>>) THEN 1 ELSE 0)]_vars

\* C18's case: the theme was toggled and the source list arrived, and the calls
\* issued are the first render's and the one of a filter change
C18_Witness ==
    /\ darkMode /\ storage = "true"
    /\ sources # <<>>
    /\ searchQuery = InitialQuery
    /\ filters = [InitialFilters EXCEPT !.source = "bbc-news"]
    /\ Len(requests) = 2

\* C19: in Failure, a change that leaves a non-blank query issues a call and
\* ends in Loading; and when the continuation of the latest call, one issued by
\* such a change, applies a success answer, no failure message is held any
\* more: the state is not Failure.
C19_RetryAfterFailure ==
    [][/\ (IsFailure /\ Changes /\ Trim(searchQuery') # <<>>) => (Issues /\ IsLoading')
       /\ \A i \in 1 .. MaxFetches :
             (Settles(i) /\ 1 < i /\ i = Len(requests)
                 /\ requests[i].answer.status = "success")
                 => ~IsFailure']_vars

\* the answers fetchSources can get
SourcesAnswers == {SourcesRoute(o) : o \in SourcesOutcomes} \cup {Rejected}

\* a /api/sources call ends in this step
SourcesStep == \E j \in 1 .. Len(srcRequests) : srcRequests'[j] # srcRequests[j]

\* C20: the step in which fetchSources ends, whatever its answer, leaves
\* loading, error, articles and the /news calls as they are; an answer that is
\* no success leaves the source list as it is, so that a session whose only
\* /sources call failed has an empty list; and the source select always offers
\* "all".
C20_SourcesNeverDisturbSearch ==
    [][/\ SourcesStep => UNCHANGED <<loading, error, articles, requests, searchQuery, filters>>
       /\ \A a \in SourcesAnswers : a.status # "success" => SourcesAfter(a) = sources
       /\ (SourcesStep /\ sources' = <<>>) => SourceOptions' = {"all"}
       /\ "all" \in SourceOptions]_vars

\* C20's case: the /sources call has ended without a list while a /news call
\* was in flight, and that call has since been applied
C20_Witness ==
    /\ pc = "mounted"
    /\ \A j \in 1 .. Len(srcRequests) : srcRequests[j].stage = "done"
    /\ sources = <<>>
    /\ SourceOptions = {"all"}
    /\ Len(requests) = 1 /\ requests[1].stage = "done"
    /\ IsSuccess

-----------------------------------------------------------------------------
(* The backend process: C21, C23, C24 *)

\* the fields of a response body that hold text
TextFields == {"status", "error", "code", "message"}

\* the key is the value of a field of the response
ContainsKey(r, key) == \E f \in DOMAIN r \cap TextFields : r[f] = key

\* C21: whatever the request and the upstream behaviour, the response carries
\* the key in no field, and a process that differs in the key alone sends the
\* same response.
C21_KeyNeverInResponse ==
    (probe.fn = "server" /\ probe.served)
        => (~ContainsKey(probe.out, probe.key) /\ probe.out = probe.twin)

\* C21's case: a /api/news request whose upstream call, made with the key, was
\* rejected by the upstream API
C21_Witness ==
    /\ probe.fn = "server" /\ probe.served
    /\ probe.key = "key-two"
    /\ probe.call.endpoint = "/everything"
    /\ probe.call.params["apiKey"] = "key-two"
    /\ probe.outcome.status = 401
    /\ probe.out.code = "INVALID_API_KEY"

\* the four GET routes
GetRoutes == {"/api/health"} \cup UpstreamRoutes

\* C23: a request that is not a GET of one of the four routes is answered with
\* HTTP 404 and the fixed body that lists the four endpoints, and no upstream
\* call is made for it.
C23_UnmatchedRouteIs404 ==
    (probe.fn = "server" /\ probe.served
        /\ ~(probe.method = "GET" /\ probe.path \in GetRoutes))
        => (probe.out = NotFoundResponse /\ probe.call = NoUpstreamCall)

\* C24: a process started without a key (not set, or empty) has exited and
\* serves no request; every upstream call made carries a key.
C24_NoKeyNoServer ==
    probe.fn = "server"
        => /\ ~Truthy(probe.key) => (probe.phase = "exited" /\ ~probe.served)
           /\ (probe.served /\ probe.call # NoUpstreamCall)
                 => Truthy(probe.call.params["apiKey"])

\* C24's case: started with NEWS_API_KEY set to the empty string
C24_Witness ==
    /\ probe.fn = "server"
    /\ probe.key = ""
    /\ probe.phase = "exited"

-----------------------------------------------------------------------------
(* The client, continued: C22, C25 - C30 *)

\* C22: before the first render is committed darkMode is the stored JSON value,
\* or false when nothing is stored; from then on, after every toggle, the text
\* stored under darkMode is the JSON encoding of darkMode.
C22_ThemePersisted ==
    /\ pc = "init" => darkMode = (storage = "true")
    /\ pc = "mounted" => storage = JSONStringify(darkMode)

\* C22's case: dark mode is on and stored, in a session that went on to clear
\* the query
C22_Witness ==
    /\ pc = "mounted"
    /\ darkMode /\ storage = "true"
    /\ searchQuery = <<>>

\* C25: a session issues exactly one /sources call, when the first render is
\* committed, and no later step issues another.
C25_SourcesFetchedOnce ==
    /\ pc = "init" => Len(srcRequests) = 0
    /\ pc = "mounted" => Len(srcRequests) = 1

\* C26: when every issued call ends, a state with loading true is followed by
\* a state with loading false that is Success or Failure.
C26_LoadingEnds == loading ~> (~loading /\ (IsSuccess \/ IsFailure))

\* C26's case: every call the session could issue has ended, the last one in
\* Success
C26_Witness ==
    /\ Len(requests) = MaxFetches
    /\ \A i \in 1 .. Len(requests) : requests[i].stage = "done"
    /\ ~loading /\ IsSuccess

\* C27: truncateText returns the text when it is no longer than maxLength, the
\* empty string when the text is missing, and never more than maxLength
\* characters; a card shows at most 100 characters of title and 150 of
\* description.
C27_TruncatedToMaxLength ==
    /\ probe.fn = "truncateText" =>
          /\ probe.text.type # "string" => probe.out = <<>>
          /\ (probe.text.type = "string" /\ Len(probe.text.chars) <= probe.maxLength)
                => probe.out = probe.text.chars
          /\ Len(probe.out) <= probe.maxLength
    /\ probe.fn = "NewsCard" =>
          /\ Len(probe.shownTitle) <= TitleLimit
          /\ probe.showsDescription => Len(probe.shownDescription) <= DescriptionLimit

\* C28: loading is true exactly when some /news call has been issued and its
\* continuation has not run yet.
C28_LoadingIffOutstanding ==
    loading <=> (\E i \in 1 .. Len(requests) : requests[i].stage # "done")

\* C29: the results section shows at most one of spinner, error banner,
\* article list and welcome message, and the article list only when loading is
\* false, error is null and articles is not empty.
C29_OneViewAtMost ==
    /\ Cardinality({v \in {"spinner", "banner", "list", "welcome"} :
                      \/ v = "spinner" /\ ShowsSpinner
                      \/ v = "banner" /\ ShowsErrorBanner
                      \/ v = "list" /\ ShowsArticleList
                      \/ v = "welcome" /\ ShowsWelcome}) <= 1
    /\ ShowsArticleList => (~loading /\ error = Null /\ Len(articles) > 0)

\* C29's case: the list is shown over an empty search box, where only the
\* test on articles.length keeps the welcome message away
C29_Witness ==
    /\ ShowsArticleList /\ searchQuery = <<>>
    /\ ~ShowsSpinner /\ ~ShowsErrorBanner /\ ~ShowsWelcome

\* C30: submitting the search form leaves searchQuery, filters, articles,
\* loading and error as they are and issues no call; in Failure, no step that
\* keeps the query and the filters issues a call.
C30_SubmitChangesNothing ==
    [][/\ handleSearch =>
             UNCHANGED <<searchQuery, filters, articles, loading, error, requests>>
       /\ (IsFailure /\ searchQuery' = searchQuery /\ filters' = filters)
             => ~Issues]_vars

\* C30's case: the first render's call has failed, the query and the filters
\* are still the initial ones and the form can be submitted again
C30_Witness ==
    /\ pc = "mounted" /\ IsFailure
    /\ searchQuery = InitialQuery /\ filters = InitialFilters
    /\ Len(requests) = 1 /\ requests[1].stage = "done"
    /\ ENABLED handleSearch

====
